---- MODULE Spec2Model ----
(***************************************************************************)
(* Model of glacier-archiver.py: the archiving engine process_archiving,   *)
(* the part writer create_tar_part and the tracking reader                 *)
(* load_tracked_files, over an abstract file system (source tree,          *)
(* destination directory).                                                 *)
(*                                                                         *)
(* Strings are sequences of one-character strings, so that str.strip,      *)
(* str.startswith, slicing and string comparison are computed as Python    *)
(* computes them.  Sizes are in abstract byte units.                       *)
(***************************************************************************)
EXTENDS Integers, Sequences, FiniteSets, TLC

----------------------------------------------------------------------------
(* Bounds of the model *)

\* number of runs of process_archiving in one behaviour
MaxRuns == 2
\* number of files in the whole source tree
MaxFiles == 2
\* size (st_size) of the largest file the environment creates
MaxSize == 3
\* number of unreadable files the environment creates
MaxBroken == 1
\* the files of the lists whose batching is explored
MaxBatch == 3

----------------------------------------------------------------------------
(* Strings *)

\* the characters used, in increasing code point order
Chars == <<" ", "-", ".", "/", "0", "1", "2", "3", "4", "5", "6", "7", "8", "9",
           "_", "a", "b", "c">>

Ord(c) == CHOOSE i \in 1..Len(Chars) : Chars[i] = c

Whitespace == {" "}

Digits == <<"0", "1", "2", "3", "4", "5", "6", "7", "8", "9">>

RECURSIVE LStrip(_)
LStrip(s) == IF s # <<>> /\ Head(s) \in Whitespace THEN LStrip(Tail(s)) ELSE s

RECURSIVE RStrip(_)
RStrip(s) ==
  IF s # <<>> /\ s[Len(s)] \in Whitespace THEN RStrip(SubSeq(s, 1, Len(s) - 1)) ELSE s

\* str.strip()
Strip(s) == RStrip(LStrip(s))

\* str.startswith(p)
StartsWith(s, p) == Len(s) >= Len(p) /\ SubSeq(s, 1, Len(p)) = p

\* s[:n]
Slice(s, n) == SubSeq(s, 1, IF Len(s) < n THEN Len(s) ELSE n)

\* s > t, the comparison of Python strings (by code point, then by length)
RECURSIVE StrGreater(_, _)
StrGreater(s, t) ==
  IF s = <<>> THEN FALSE
  ELSE IF t = <<>> THEN TRUE
  ELSE IF Head(s) # Head(t) THEN Ord(Head(s)) > Ord(Head(t))
  ELSE StrGreater(Tail(s), Tail(t))

\* "%04d" and "%02d" of strftime("%Y-%m")
Fmt2(n) == <<Digits[((n \div 10) % 10) + 1], Digits[(n % 10) + 1]>>
Fmt4(n) == Fmt2(n \div 100) \o Fmt2(n % 100)

Range(s) == {s[i] : i \in 1..Len(s)}

----------------------------------------------------------------------------
(* Names *)

\* f"{month_dir.parent.name}-{month_dir.name}"
FolderId(d) == d.year \o <<"-">> \o d.month

\* str(f.relative_to(month_dir.parent.parent)), for a file directly in month_dir
RelPath(d, name) == d.year \o <<"/">> \o d.month \o <<"/">> \o name

\* the month directories of the source tree, as sorted() orders them
StdDirs == << [year |-> <<"2", "0", "2", "3">>, month |-> <<"0", "1">>],
              [year |-> <<"2", "0", "2", "3">>, month |-> <<"0", "2">>] >>

\* month directories on both sides of a new year, one with a name longer than
\* the two digits of the month
DateDirs == << [year |-> <<"2", "0", "2", "2">>, month |-> <<"1", "2">>],
               [year |-> <<"2", "0", "2", "3">>, month |-> <<"0", "1">>],
               [year |-> <<"2", "0", "2", "3">>, month |-> <<"0", "2", "b">>] >>

\* the months in which the program runs over DateDirs
Clocks == {[year |-> 2023, month |-> 1], [year |-> 2023, month |-> 2]}

\* the file names the environment uses: the j-th file created in a month
\* directory is named Names[j] (the names of a directory are distinct, and
\* which name comes first makes no difference to the program)
Names == << <<"a">>, <<"b">>, <<"a", " ">>, <<"c">>, <<"b", " ">> >>

\* the lists of files of a month directory: at most n files, named as the
\* environment names them, of any size up to MaxSize
RECURSIVE FileLists(_)
FileLists(n) ==
  IF n = 0 THEN {<<>>}
  ELSE FileLists(n - 1) \cup
       {Append(l, [name |-> Names[n], size |-> size, ok |-> TRUE]) :
          l \in {l \in FileLists(n - 1) : Len(l) = n - 1}, size \in 0..MaxSize}

\* the file sizes the environment uses, for a ceiling of 2: an empty file, a
\* file of which two fit in one part, and a file larger than the ceiling
Sizes == {0, 1, MaxSize}

\* a file of dest_root that does not exist; one that exists holds lines
NoFile == [exists |-> FALSE, lines |-> <<>>]

\* str(n) for n >= 0
RECURSIVE Str(_)
Str(n) == IF n < 10 THEN <<Digits[n + 1]>> ELSE Str(n \div 10) \o <<Digits[(n % 10) + 1]>>

PrefixChars(prefix) ==
  IF prefix = "STATIC" THEN <<"S", "T", "A", "T", "I", "C">> ELSE <<"I", "N", "C">>

\* f"{prefix}_{folder_id}.part{part_num}.tar"
ArcName(arc) ==
  PrefixChars(arc.prefix) \o <<"_">> \o arc.fid \o <<".", "p", "a", "r", "t">>
    \o Str(arc.num) \o <<".", "t", "a", "r">>

\* archive_path.with_suffix(".tar.tmp")
TempName(arc) == ArcName(arc) \o <<".", "t", "m", "p">>

EndsWith(s, p) == Len(s) >= Len(p) /\ SubSeq(s, Len(s) - Len(p) + 1, Len(s)) = p

\* Path.glob("*.part*.tar") on one file name
GlobAllFolders(fid, name) ==
  LET mid == <<".", "p", "a", "r", "t">>
      ext == <<".", "t", "a", "r">>
  IN  \E i \in 0..Len(name) :
        /\ i + Len(mid) + Len(ext) <= Len(name)
        /\ SubSeq(name, i + 1, i + Len(mid)) = mid
        /\ EndsWith(name, ext)

\* Path.glob(f"*{folder_id}.part*.tar") on one file name
GlobMatches(fid, name) ==
  LET mid == fid \o <<".", "p", "a", "r", "t">>
      ext == <<".", "t", "a", "r">>
  IN  \E i \in 0..Len(name) :
        /\ i + Len(mid) + Len(ext) <= Len(name)
        /\ SubSeq(name, i + 1, i + Len(mid)) = mid
        /\ EndsWith(name, ext)

----------------------------------------------------------------------------
(* State *)

VARIABLES
  \* the source tree and the configuration
  dirs,          \* the month directories, in sorted() order
  src,           \* src[i]: the files of dirs[i], in discovery order
  now,           \* datetime.now(): [year, month]
  max_bytes,     \* config max_size_gb * 1024**3
  cap,           \* how far the behaviours are explored: [runs, files]
  \* the destination directory
  dest_exists,   \* dest_root exists
  parts,         \* the finalized archives: [prefix, fid, num, files, run]
  temps,         \* the temporary archives: [prefix, fid, num, files, closed]
  tracked,       \* tracked[fid]: the file {fid}.tracked.txt
  manifest,      \* manifest[fid]: the file {fid}.contents.txt
  newer,         \* newer[fid]: month_dir mtime < tracked_file mtime
  \* the running process
  pc,            \* position of the process; "idle" when none runs
  dry_run, idx, new_files, prefix, part_num, current_batch, current_size,
  i_new,         \* index of f in new_files
  ret,           \* call site of create_tar_part: "loop" or "final"
  k_add,         \* index of file_path in files_to_add
  mbuf, tbuf,    \* unflushed writes to the manifest and the tracking file
  \* history
  runs,          \* number of runs started
  outcome,       \* of the current or last run
  prev,          \* outcome of the run before
  since,         \* what changed in the source tree since the last run ended:
                 \* "none", "fix" (unreadable files made readable, only), "changed"
  before,        \* since, as it was when the current run started
  calls,         \* calls of create_tar_part for the current folder in this run
  handed         \* the batches handed to create_tar_part by these calls, in order

srcVars == <<dirs, src, now, max_bytes, cap>>
destVars == <<dest_exists, parts, temps, tracked, manifest, newer>>
runVars == <<dry_run, idx, new_files, prefix, part_num, current_batch, current_size,
             i_new, ret, k_add, mbuf, tbuf>>
histVars == <<runs, outcome, prev, since, before>>
vars == <<srcVars, destVars, pc, runVars, histVars, calls, handed>>

Fids == {FolderId(dirs[i]) : i \in 1..Len(dirs)}

----------------------------------------------------------------------------
(* The file system, as the program reads it *)

\* datetime.now().strftime("%Y-%m")
ArchiveUntilNow == Fmt4(now.year) \o <<"-">> \o Fmt2(now.month)

\* (datetime.now().replace(day=1) - timedelta(days=1)).strftime("%Y-%m")
ArchiveUntil ==
  IF now.month = 1 THEN Fmt4(now.year - 1) \o <<"-">> \o Fmt2(12)
  ELSE Fmt4(now.year) \o <<"-">> \o Fmt2(now.month - 1)

\* f"{month_dir.parent.name}-{month_dir.name[:2]}"
DirDate(d) == d.year \o <<"-">> \o Slice(d.month, 2)

\* the folder passes the BOUNDARY check: not (dir_date > archive_until)
Eligible(d) == ~StrGreater(DirDate(d), ArchiveUntil)

\* load_tracked_files(tracked_path)
LoadTrackedFiles(fid) ==
  IF ~tracked[fid].exists THEN {}
  ELSE {Strip(tracked[fid].lines[j]) : j \in {j \in 1..Len(tracked[fid].lines) :
          /\ Strip(tracked[fid].lines[j]) # <<>>
          /\ ~StartsWith(tracked[fid].lines[j], <<"-", "-", "-">>)}}

\* the file of dirs[i] named name
FileOf(i, name) == CHOOSE f \in Range(src[i]) : f.name = name

\* new_files: the names of the files of dirs[i] whose relative path is not tracked
RECURSIVE Untracked(_, _, _)
Untracked(d, fs, seen) ==
  IF fs = <<>> THEN <<>>
  ELSE IF RelPath(d, Head(fs).name) \in seen THEN Untracked(d, Tail(fs), seen)
  ELSE <<Head(fs).name>> \o Untracked(d, Tail(fs), seen)

NewFiles(i) == Untracked(dirs[i], src[i], LoadTrackedFiles(FolderId(dirs[i])))

\* "STATIC" if not already_archived else "INC"
PrefixFor(fid) == IF LoadTrackedFiles(fid) = {} THEN "STATIC" ELSE "INC"

Arc(p) == [prefix |-> p.prefix, fid |-> p.fid, num |-> p.num]

\* the names of the files in dest_root that the part listing can see
DestNames == {ArcName(Arc(p)) : p \in parts} \cup {TempName(Arc(t)) : t \in temps}

\* list(dest_root.glob(f"*{folder_id}.part*.tar"))
ExistingParts(fid) == {n \in DestNames : GlobMatches(fid, n)}

\* a listing that counts only the parts that carry the prefix of this run
NextPartNumOfPrefix(fid) ==
  Cardinality({n \in ExistingParts(fid) : StartsWith(n, PrefixChars(PrefixFor(fid)))}) + 1

\* part_num = len(existing_parts) + 1
NextPartNum(fid) == Cardinality(ExistingParts(fid)) + 1

\* the change-detection check of a folder
UpToDate(fid) == tracked[fid].exists /\ newer[fid]

\* the archive the current batch goes to: dest_root / arc_name
CurArc == [prefix |-> prefix, fid |-> FolderId(dirs[idx]), num |-> part_num]

HeaderLine(arc) == [kind |-> "header", text |-> ArcName(arc)]
PathLine(path) == [kind |-> "path", text |-> path]

----------------------------------------------------------------------------
(* Initial state: an empty source tree and an empty destination *)

InitOf(ds, files, clock, ceiling, limits) ==
  /\ dirs = ds
  /\ src = files
  /\ now = clock
  /\ max_bytes = ceiling
  /\ cap = limits
  /\ dest_exists = FALSE
  /\ parts = {}
  /\ temps = {}
  /\ tracked = [f \in {FolderId(ds[i]) : i \in 1..Len(ds)} |-> NoFile]
  /\ manifest = [f \in {FolderId(ds[i]) : i \in 1..Len(ds)} |-> NoFile]
  /\ newer = [f \in {FolderId(ds[i]) : i \in 1..Len(ds)} |-> FALSE]
  /\ pc = "idle"
  /\ dry_run = FALSE
  /\ idx = 1
  /\ new_files = <<>>
  /\ prefix = "STATIC"
  /\ part_num = 1
  /\ current_batch = <<>>
  /\ current_size = 0
  /\ i_new = 1
  /\ ret = "final"
  /\ k_add = 1
  /\ mbuf = <<>>
  /\ tbuf = <<>>
  /\ runs = 0
  /\ outcome = "none"
  /\ prev = "none"
  /\ since = "none"
  /\ before = "none"
  /\ calls = 0
  /\ handed = <<>>

\* no file in the month directories ds
NoFiles(ds) == [i \in 1..Len(ds) |-> <<>>]

\* March 2023, a ceiling of two bytes
Init ==
  InitOf(StdDirs, NoFiles(StdDirs), [year |-> 2023, month |-> 3], 2,
         [runs |-> MaxRuns, files |-> MaxFiles])

----------------------------------------------------------------------------
(* process_archiving *)

\* the local variables of process_archiving and create_tar_part do not outlive
\* the call
NoLocals ==
  /\ idx' = 1
  /\ new_files' = <<>>
  /\ prefix' = "STATIC"
  /\ part_num' = 1
  /\ current_batch' = <<>>
  /\ current_size' = 0
  /\ i_new' = 1
  /\ ret' = "final"
  /\ k_add' = 1
  /\ mbuf' = <<>>
  /\ tbuf' = <<>>
  /\ calls' = 0
  /\ handed' = <<>>

\* dest_root.mkdir(parents=True, exist_ok=True) whatever the mode
MkdirAlways(dry) == TRUE

\* if not dry_run: dest_root.mkdir(parents=True, exist_ok=True)
Mkdir(dry) == dest_exists \/ ~dry

\* a run starts: the configuration is read and dest_root is created
StartRun(dry) ==
  /\ pc = "idle"
  /\ runs < cap.runs
  /\ pc' = "scan"
  /\ dry_run' = dry
  /\ dest_exists' = Mkdir(dry)
  /\ NoLocals
  /\ runs' = runs + 1
  /\ outcome' = "running"
  /\ prev' = outcome
  /\ before' = since
  /\ since' = "none"
  /\ UNCHANGED <<srcVars, parts, temps, tracked, manifest, newer>>

\* the for loop over the month directories is exhausted: the run ends
EndRun ==
  /\ pc = "scan"
  /\ idx > Len(dirs)
  /\ pc' = "idle"
  /\ outcome' = "ok"
  /\ NoLocals
  /\ UNCHANGED <<srcVars, destVars, dry_run, runs, prev, since, before>>

\* one of the three `continue` statements: folder up to date, folder of the
\* current month or later, no new file
SkipFolder ==
  /\ pc = "scan"
  /\ idx <= Len(dirs)
  /\ \/ UpToDate(FolderId(dirs[idx]))
     \/ ~Eligible(dirs[idx])
     \/ NewFiles(idx) = <<>>
  /\ idx' = idx + 1
  /\ UNCHANGED <<srcVars, destVars, pc, dry_run, new_files, prefix, part_num,
                 current_batch, current_size, i_new, ret, k_add, mbuf, tbuf, histVars,
                 calls, handed>>

\* the folder is scanned: new files, prefix and first part number
BeginFolder ==
  /\ pc = "scan"
  /\ idx <= Len(dirs)
  /\ ~UpToDate(FolderId(dirs[idx]))
  /\ Eligible(dirs[idx])
  /\ NewFiles(idx) # <<>>
  /\ new_files' = NewFiles(idx)
  /\ prefix' = PrefixFor(FolderId(dirs[idx]))
  /\ part_num' = NextPartNum(FolderId(dirs[idx]))
  /\ current_batch' = <<>>
  /\ current_size' = 0
  /\ i_new' = 1
  /\ calls' = 0
  /\ handed' = <<>>
  /\ pc' = "loop"
  /\ UNCHANGED <<srcVars, destVars, dry_run, idx, ret, k_add, mbuf, tbuf, histVars>>

\* a test that closes the batch as soon as f would fill it up to the ceiling
ClosesBatchAtCeiling(size, f_size) == size > 0 /\ (size + f_size) >= max_bytes

\* the test that closes the current batch before f is added to it
ClosesBatch(size, f_size) == size > 0 /\ (size + f_size) > max_bytes

\* one iteration of `for f in new_files` up to the call of create_tar_part, or
\* the `if current_batch` after the loop
LoopStep ==
  /\ pc = "loop"
  /\ IF i_new <= Len(new_files)
     THEN LET f_size == FileOf(idx, new_files[i_new]).size
          IN  IF ClosesBatch(current_size, f_size)
              THEN /\ pc' = "call"
                   /\ ret' = "loop"
                   /\ calls' = calls + 1
                   /\ handed' = Append(handed, current_batch)
                   /\ UNCHANGED <<current_batch, current_size, i_new, idx>>
              ELSE /\ current_batch' = Append(current_batch, new_files[i_new])
                   /\ current_size' = current_size + f_size
                   /\ i_new' = i_new + 1
                   /\ UNCHANGED <<pc, ret, idx, calls, handed>>
     ELSE IF current_batch # <<>>
          THEN /\ pc' = "call"
               /\ ret' = "final"
               /\ calls' = calls + 1
               /\ handed' = Append(handed, current_batch)
               /\ UNCHANGED <<current_batch, current_size, i_new, idx>>
          ELSE /\ pc' = "scan"
               /\ idx' = idx + 1
               /\ UNCHANGED <<current_batch, current_size, i_new, ret, calls, handed>>
  /\ UNCHANGED <<srcVars, destVars, dry_run, new_files, prefix, part_num, k_add,
                 mbuf, tbuf, histVars>>

\* part_num is left as it is
NotIncremented(n) == n

\* part_num += 1
Incremented(n) == n + 1

\* current_batch = [], with f left out
NewBatchEmpty(f) == <<>>

\* current_batch = [] and, further down the iteration, current_batch.append(f)
NewBatch(f) == <<f>>


\* create_tar_part has returned: the rest of the loop iteration that called it
\* (part_num += 1, a new batch holding f), or the next folder
Resume ==
  IF ret = "loop"
  THEN /\ part_num' = Incremented(part_num)
       /\ current_batch' = NewBatch(new_files[i_new])
       /\ current_size' = FileOf(idx, new_files[i_new]).size
       /\ i_new' = i_new + 1
       /\ pc' = "loop"
       /\ UNCHANGED <<idx, new_files, prefix>>
  ELSE /\ idx' = idx + 1
       /\ pc' = "scan"
       /\ new_files' = <<>>
       /\ prefix' = "STATIC"
       /\ part_num' = 1
       /\ current_batch' = <<>>
       /\ current_size' = 0
       /\ i_new' = 1

----------------------------------------------------------------------------
(* create_tar_part *)

\* the writes of a with block reach the file when it is closed (or before)
Flushed(file, buf) == [exists |-> TRUE, lines |-> file.lines \o buf]

\* an except clause that leaves the temporary file behind
NotUnlinked(arc) == temps

\* the except clause: if temp_path.exists(): temp_path.unlink()
Unlinked(arc) == {t \in temps : Arc(t) # arc}

\* temp_path.replace(archive_path)
Replaced(arc) ==
  {p \in parts : Arc(p) # arc} \cup
  {[prefix |-> t.prefix, fid |-> t.fid, num |-> t.num, files |-> t.files,
    closed |-> t.closed, run |-> runs] : t \in {t \in temps : Arc(t) = arc}}

\* if dry_run: log and return
DryCall ==
  /\ pc = "call"
  /\ dry_run
  /\ Resume
  /\ UNCHANGED <<srcVars, destVars, dry_run, ret, k_add, mbuf, tbuf, histVars, calls, handed>>

\* tarfile.open(temp_path, "w"), open(manifest_path, "a"), open(tracked_path, "a")
\* and the header written to the manifest
TarOpen ==
  /\ pc = "call"
  /\ ~dry_run
  /\ LET fid == CurArc.fid
     IN  /\ temps' = {t \in temps : Arc(t) # CurArc} \cup
                       {[prefix |-> prefix, fid |-> fid, num |-> part_num,
                         files |-> <<>>, closed |-> FALSE]}
         /\ manifest' = [manifest EXCEPT ![fid] = Flushed(@, <<>>)]
         /\ tracked' = [tracked EXCEPT ![fid] = Flushed(@, <<>>)]
         /\ newer' = [newer EXCEPT ![fid] = IF ~tracked[fid].exists THEN TRUE ELSE @]
         /\ mbuf' = <<HeaderLine(CurArc)>>
  /\ tbuf' = <<>>
  /\ k_add' = 1
  /\ pc' = "add"
  /\ UNCHANGED <<srcVars, dest_exists, parts, dry_run, idx, new_files, prefix, part_num,
                 current_batch, current_size, i_new, ret, histVars, calls, handed>>

\* one iteration of `for file_path in files_to_add`, tar.add succeeding
TarAdd ==
  /\ pc = "add"
  /\ k_add <= Len(current_batch)
  /\ FileOf(idx, current_batch[k_add]).ok
  /\ LET arcname == RelPath(dirs[idx], current_batch[k_add])
     IN  /\ temps' = {IF Arc(t) = CurArc THEN [t EXCEPT !.files = Append(@, arcname)]
                      ELSE t : t \in temps}
         /\ mbuf' = Append(mbuf, PathLine(arcname))
         /\ tbuf' = Append(tbuf, arcname)
  /\ k_add' = k_add + 1
  /\ UNCHANGED <<srcVars, dest_exists, parts, tracked, manifest, newer, pc, dry_run, idx,
                 new_files, prefix, part_num, current_batch, current_size, i_new, ret,
                 histVars, calls, handed>>

\* an except clause of process_archiving that logs and goes on with the next
\* month directory
NoBreak ==
  /\ pc' = "scan"
  /\ idx' = idx + 1

\* the except clause of process_archiving: log and break
Break ==
  /\ pc' = "idle"
  /\ idx' = idx

\* tar.add raises: the with blocks close the three files, the except clause
\* unlinks temp_path and re-raises, process_archiving logs and breaks.  The
\* batch that failed stays in current_batch, its archive in CurArc.
TarFail ==
  /\ pc = "add"
  /\ k_add <= Len(current_batch)
  /\ ~FileOf(idx, current_batch[k_add]).ok
  /\ LET fid == CurArc.fid
     IN  /\ manifest' = [manifest EXCEPT ![fid] = Flushed(@, mbuf)]
         /\ tracked' = [tracked EXCEPT ![fid] = Flushed(@, tbuf)]
         /\ newer' = [newer EXCEPT ![fid] = IF tbuf # <<>> THEN TRUE ELSE @]
  /\ temps' = Unlinked(CurArc)
  /\ mbuf' = <<>>
  /\ tbuf' = <<>>
  /\ Break
  /\ outcome' = "failed"
  /\ UNCHANGED <<srcVars, dest_exists, parts, dry_run, new_files, prefix, part_num,
                 current_batch, current_size, i_new, ret, k_add, runs, prev, since, before, calls, handed>>

\* the loop is over: the with blocks close the manifest, the tracking file and
\* the tar file
TarClose ==
  /\ pc = "add"
  /\ k_add > Len(current_batch)
  /\ LET fid == CurArc.fid
     IN  /\ manifest' = [manifest EXCEPT ![fid] = Flushed(@, mbuf)]
         /\ tracked' = [tracked EXCEPT ![fid] = Flushed(@, tbuf)]
         /\ newer' = [newer EXCEPT ![fid] = IF tbuf # <<>> THEN TRUE ELSE @]
  /\ temps' = {IF Arc(t) = CurArc THEN [t EXCEPT !.closed = TRUE] ELSE t : t \in temps}
  /\ mbuf' = <<>>
  /\ tbuf' = <<>>
  /\ pc' = "rename"
  /\ UNCHANGED <<srcVars, dest_exists, parts, dry_run, idx, new_files, prefix, part_num,
                 current_batch, current_size, i_new, ret, k_add, histVars, calls, handed>>

\* temp_path.replace(archive_path), and the return to process_archiving
TarRename ==
  /\ pc = "rename"
  /\ parts' = Replaced(CurArc)
  /\ temps' = {t \in temps : Arc(t) # CurArc}
  /\ Resume
  /\ k_add' = 1
  /\ UNCHANGED <<srcVars, dest_exists, tracked, manifest, newer, dry_run, ret, mbuf, tbuf,
                 histVars, calls, handed>>

\* a write buffer fills up inside the loop and is written to its file
Spill(which) ==
  /\ pc = "add"
  /\ LET fid == CurArc.fid
     IN  IF which = "manifest"
         THEN /\ mbuf # <<>>
              /\ manifest' = [manifest EXCEPT ![fid] = Flushed(@, mbuf)]
              /\ mbuf' = <<>>
              /\ UNCHANGED <<tracked, newer, tbuf>>
         ELSE /\ tbuf # <<>>
              /\ tracked' = [tracked EXCEPT ![fid] = Flushed(@, tbuf)]
              /\ newer' = [newer EXCEPT ![fid] = TRUE]
              /\ tbuf' = <<>>
              /\ UNCHANGED <<manifest, mbuf>>
  /\ UNCHANGED <<srcVars, dest_exists, parts, temps, pc, dry_run, idx, new_files, prefix,
                 part_num, current_batch, current_size, i_new, ret, k_add, histVars, calls, handed>>

\* the process is terminated from outside while it writes a part: what was not
\* written is lost (terminated anywhere else, it leaves the file system as a
\* shorter run does)
Kill ==
  /\ pc \in {"add", "rename"}
  /\ pc' = "idle"
  /\ outcome' = "killed"
  /\ NoLocals
  /\ UNCHANGED <<srcVars, destVars, dry_run, runs, prev, since, before>>

----------------------------------------------------------------------------
(* The environment, between two runs *)

NumFiles == Cardinality({<<i, j>> \in (1..Len(dirs)) \X (1..Len(Names)) : j <= Len(src[i])})

NumBroken ==
  Cardinality({<<i, j>> \in (1..Len(dirs)) \X (1..Len(Names)) :
                 j <= Len(src[i]) /\ ~src[i][j].ok})

\* a file appears in a month directory, whose mtime changes
AddFile(i, size, ok) ==
  /\ pc = "idle"
  /\ NumFiles < cap.files
  /\ Len(src[i]) < Len(Names)
  /\ ok \/ NumBroken < MaxBroken
  /\ src' = [src EXCEPT ![i] = Append(@, [name |-> Names[Len(src[i]) + 1],
                                          size |-> size, ok |-> ok])]
  /\ newer' = [newer EXCEPT ![FolderId(dirs[i])] = FALSE]
  /\ since' = "changed"
  /\ UNCHANGED <<dirs, now, max_bytes, cap, dest_exists, parts, temps, tracked, manifest, pc,
                 runVars, runs, outcome, prev, before, calls, handed>>

\* the operator makes an unreadable file readable
FixFile(i, j) ==
  /\ pc = "idle"
  /\ j <= Len(src[i])
  /\ ~src[i][j].ok
  /\ src' = [src EXCEPT ![i][j].ok = TRUE]
  /\ since' = IF since = "none" THEN "fix" ELSE since
  /\ UNCHANGED <<dirs, now, max_bytes, cap, destVars, pc, runVars, runs, outcome, prev, before, calls, handed>>

\* the mtime of a month directory changes with no file added
Touch(i) ==
  /\ pc = "idle"
  /\ newer[FolderId(dirs[i])]
  /\ newer' = [newer EXCEPT ![FolderId(dirs[i])] = FALSE]
  /\ since' = "changed"
  /\ UNCHANGED <<srcVars, dest_exists, parts, temps, tracked, manifest, pc, runVars, runs,
                 outcome, prev, before, calls, handed>>

----------------------------------------------------------------------------

Next ==
  \/ StartRun(FALSE)
  \/ EndRun
  \/ SkipFolder
  \/ BeginFolder
  \/ LoopStep
  \/ TarOpen
  \/ TarAdd
  \/ TarFail
  \/ TarClose
  \/ TarRename
  \/ \E i \in 1..Len(dirs), size \in Sizes, ok \in BOOLEAN : AddFile(i, size, ok)
  \/ \E i \in 1..Len(dirs), j \in 1..Len(Names) : FixFile(i, j)
  \/ \E i \in 1..Len(dirs) : Touch(i)

\* the runs of process_archiving that end by themselves, and the changes of
\* the source tree between them
Spec == Init /\ [][Next]_vars

\* the same, with processes terminated from outside while they write a part
\* the same, explored one run and one file further
InitDeep ==
  InitOf(StdDirs, NoFiles(StdDirs), [year |-> 2023, month |-> 3], 2,
         [runs |-> MaxRuns + 1, files |-> MaxFiles + 1])

SpecDeep == InitDeep /\ [][Next]_vars

\* runs of either mode over files that can all be read
NextDry ==
  \/ \E dry \in BOOLEAN : StartRun(dry)
  \/ EndRun
  \/ SkipFolder
  \/ BeginFolder
  \/ LoopStep
  \/ DryCall
  \/ TarOpen
  \/ TarAdd
  \/ TarClose
  \/ TarRename
  \/ \E i \in 1..Len(dirs), size \in Sizes : AddFile(i, size, TRUE)
  \/ \E i \in 1..Len(dirs) : Touch(i)

SpecDry == Init /\ [][NextDry]_vars

\* runs in January or in February 2023 over the month directories DateDirs
InitDate ==
  \E clock \in Clocks :
    InitOf(DateDirs, NoFiles(DateDirs), clock, 2, [runs |-> MaxRuns, files |-> MaxFiles])

NextDate ==
  \/ StartRun(FALSE)
  \/ EndRun
  \/ SkipFolder
  \/ BeginFolder
  \/ LoopStep
  \/ TarOpen
  \/ TarAdd
  \/ TarClose
  \/ TarRename
  \/ \E i \in 1..Len(dirs), size \in Sizes : AddFile(i, size, TRUE)
  \/ \E i \in 1..Len(dirs) : Touch(i)

SpecDate == InitDate /\ [][NextDate]_vars

\* one month directory with any list of at most MaxBatch files, any ceiling up
\* to the largest file size, runs of either mode
InitBatch ==
  \E files \in FileLists(MaxBatch) \ {<<>>}, ceiling \in 1..MaxSize :
    InitOf(StdDirs, [NoFiles(StdDirs) EXCEPT ![1] = files], [year |-> 2023, month |-> 3],
           ceiling, [runs |-> MaxRuns, files |-> 0])

NextBatch ==
  \/ \E dry \in BOOLEAN : StartRun(dry)
  \/ EndRun
  \/ SkipFolder
  \/ BeginFolder
  \/ LoopStep
  \/ DryCall
  \/ TarOpen
  \/ TarAdd
  \/ TarClose
  \/ TarRename

SpecBatch == InitBatch /\ [][NextBatch]_vars

NextCrash ==
  \/ Next
  \/ \E which \in {"manifest", "tracked"} : Spill(which)
  \/ Kill

SpecCrash == Init /\ [][NextCrash]_vars

\* the same over a single month directory
InitOne ==
  InitOf(SubSeq(StdDirs, 1, 1), NoFiles(SubSeq(StdDirs, 1, 1)), [year |-> 2023, month |-> 3], 2,
         [runs |-> MaxRuns, files |-> MaxFiles])

SpecCrashOne == InitOne /\ [][NextCrash]_vars

----------------------------------------------------------------------------
(* What the claims speak about *)

\* the finalized parts of a folder
PartsOf(fid) == {p \in parts : p.fid = fid}

\* the paths inside the finalized parts of a folder
Archived(fid) == UNION {Range(p.files) : p \in PartsOf(fid)}

\* the paths in the tracking file and in the manifest of a folder
TrackedPaths(fid) == Range(tracked[fid].lines)
ManifestPaths(fid) ==
  {l.text : l \in {l \in Range(manifest[fid].lines) : l.kind = "path"}}

\* the relative paths of the batch handed to create_tar_part
BatchPaths == {RelPath(dirs[idx], current_batch[j]) : j \in 1..Len(current_batch)}

\* the bytes of the batch handed to create_tar_part
RECURSIVE BatchBytes(_)
BatchBytes(names) ==
  IF names = <<>> THEN 0 ELSE FileOf(idx, Head(names)).size + BatchBytes(Tail(names))

\* a run has ended by itself, without or with a failed batch write
RunOk == pc = "idle" /\ outcome = "ok"
RunFailed == pc = "idle" /\ outcome = "failed"

\* the run that has ended finalized no part
NothingArchived == \A p \in parts : p.run # runs

\* every file under an eligible month directory is in some finalized part
AllArchived ==
  \A i \in 1..Len(dirs) : Eligible(dirs[i]) =>
    \A j \in 1..Len(src[i]) :
      RelPath(dirs[i], src[i][j].name) \in Archived(FolderId(dirs[i]))

\* C1: after create_tar_part failed on a batch, the tracking file and the
\* manifest hold no entry for any file of that batch, and no file is at the
\* final archive path of the part
C1_NoEntryAfterFailure ==
  RunFailed =>
    /\ BatchPaths \cap TrackedPaths(CurArc.fid) = {}
    /\ BatchPaths \cap ManifestPaths(CurArc.fid) = {}
    /\ \A p \in parts : Arc(p) # CurArc

\* C2: archive-then-track: whatever path the tracking file holds on disk is
\* inside a finalized part of the folder, at every step of every run
C2_ArchiveThenTrack ==
  \A fid \in Fids : TrackedPaths(fid) \subseteq Archived(fid)

\* C3: at the end of every run in which no batch write failed, the paths in
\* the tracking file of a folder are exactly the paths inside its finalized
\* parts
C3_TrackedEqualsArchived ==
  RunOk => \A fid \in Fids : TrackedPaths(fid) = Archived(fid)

\* C4: completeness: once successful runs find nothing left to archive (the
\* last run ended without failure and finalized no part, every file readable,
\* the source tree unchanged since), every file under an eligible month
\* directory is in exactly one finalized part and exactly once in the tracking
\* file
C4_Completeness ==
  (RunOk /\ NothingArchived /\ since = "none" /\ NumBroken = 0) =>
    \A i \in 1..Len(dirs) : Eligible(dirs[i]) =>
      \A j \in 1..Len(src[i]) :
        LET fid == FolderId(dirs[i])
            path == RelPath(dirs[i], src[i][j].name)
        IN  /\ Cardinality({p \in PartsOf(fid) : path \in Range(p.files)}) = 1
            /\ Cardinality({n \in 1..Len(tracked[fid].lines) :
                              tracked[fid].lines[n] = path}) = 1

\* C5: resume after failure: a run halted by a failed batch write, the cause
\* fixed and nothing else changed, then a re-run that ends without failure:
\* every file under an eligible month directory is in a finalized part
C5_ResumeAfterFailure ==
  (RunOk /\ prev = "failed" /\ before = "fix" /\ NumBroken = 0) => AllArchived

\* C6: idempotence: a run that follows a run with no change of the file system
\* in between finalizes no part
C6_Idempotence ==
  (runs >= 2 /\ prev \in {"ok", "failed"} /\ before = "none") => NothingArchived

\* C7: size bound: a batch handed to create_tar_part does not exceed the
\* ceiling, unless it is exactly one file larger than the ceiling
C7_SizeBound ==
  pc = "call" =>
    \/ BatchBytes(current_batch) <= max_bytes
    \/ Len(current_batch) = 1 /\ BatchBytes(current_batch) > max_bytes

\* C8: classification: the parts of a folder finalized by the first run that
\* finalized any are STATIC, those of every later run are INC, and the
\* lowest-numbered part of a folder is STATIC
C8_Classification ==
  \A fid \in Fids : \A p \in PartsOf(fid) :
    /\ (p.prefix = "STATIC") <=> (\A q \in PartsOf(fid) : q.run >= p.run)
    /\ (\A q \in PartsOf(fid) : q.num >= p.num) => p.prefix = "STATIC"

\* C9: part numbering: the n-th batch of a folder in a run goes to the part
\* numbered (finalized parts of the folder when the run started, STATIC and INC
\* together, temporary files not counted) + n
C9_PartNumbering ==
  pc \in {"call", "add", "rename"} =>
    part_num = Cardinality({p \in PartsOf(CurArc.fid) : p.run < runs}) + calls

\* C9 happens: a batch of an incremental run is numbered after a STATIC part
C9_Witness ==
  /\ pc = "call"
  /\ prefix = "INC"
  /\ part_num = 2
  /\ \E p \in PartsOf(CurArc.fid) : p.prefix = "STATIC" /\ p.num = 1

\* C10: atomic write: a file at a final archive path was closed, fully
\* written, before it was renamed; after a failed batch neither a file at the
\* final path of the part nor its temporary file exists
C10_AtomicWrite ==
  /\ \A p \in parts : p.closed
  /\ RunFailed =>
       /\ \A p \in parts : Arc(p) # CurArc
       /\ \A t \in temps : Arc(t) # CurArc

\* C10 happens: a batch failed, with a part finalized before it
C10_Witness ==
  /\ RunFailed
  /\ parts # {}

\* C11: fatal halt: once a batch write has failed, the run is over: the process
\* is at no further batch of the folder and at no further folder
C11_FatalHalt == outcome = "failed" => pc = "idle"

\* C11 happens: the run failed in the first month directory with files of the
\* second one still to archive
C11_Witness ==
  /\ RunFailed
  /\ idx = 1
  /\ src[2] # <<>>
  /\ NewFiles(2) # <<>>
  /\ ~UpToDate(FolderId(dirs[2]))

\* the files and directories of dest_root
destFiles == <<dest_exists, parts, temps, tracked, manifest>>

\* C12: a dry run leaves the destination as it is: from its start to its end no
\* step creates dest_root, a temporary or final archive, a tracking file or a
\* manifest, or appends to one
C12_DryRunFrame ==
  [][((pc # "idle" /\ dry_run) \/ (pc = "idle" /\ pc' # "idle" /\ dry_run'))
       => UNCHANGED destFiles]_vars

\* C12 happens: a dry run hands a batch to create_tar_part, with dest_root
\* absent or with the parts of an earlier run in it
C12_Witness ==
  /\ pc = "call"
  /\ dry_run
  /\ parts # {}

\* the number a string of digits denotes
RECURSIVE Num(_)
Num(s) == IF s = <<>> THEN 0 ELSE 10 * Num(SubSeq(s, 1, Len(s) - 1)) + (Ord(s[Len(s)]) - Ord("0"))

\* the month of the directory d is strictly before the current calendar month
BeforeThisMonth(d) ==
  12 * Num(d.year) + Num(SubSeq(d.month, 1, 2)) < 12 * now.year + now.month

\* C13: date eligibility: the process works on a folder only if its year-month
\* is strictly before the current calendar month, and a folder of the current
\* month or later has no part, no temporary archive, no tracking file and no
\* manifest
C13_DateEligibility ==
  /\ pc \in {"loop", "call", "add", "rename"} => BeforeThisMonth(dirs[idx])
  /\ \A i \in 1..Len(dirs) :
       ~BeforeThisMonth(dirs[i]) =>
         /\ PartsOf(FolderId(dirs[i])) = {}
         /\ {t \in temps : t.fid = FolderId(dirs[i])} = {}
         /\ ~tracked[FolderId(dirs[i])].exists
         /\ ~manifest[FolderId(dirs[i])].exists

\* C13 happens: a run has archived a folder and has passed a folder of the
\* current month that holds a file
C13_Witness ==
  /\ pc = "scan"
  /\ parts # {}
  /\ \E i \in 1..Len(dirs) :
       /\ i < idx
       /\ src[i] # <<>>
       /\ 12 * Num(dirs[i].year) + Num(SubSeq(dirs[i].month, 1, 2)) = 12 * now.year + now.month

\* C14: finalized parts are immutable: no temporary archive is renamed onto
\* the path of a finalized part, and a batch handed to create_tar_part holds
\* only files whose relative paths are not in the tracking file of the folder
C14_FinalizedImmutable ==
  /\ pc = "rename" => \A p \in parts : Arc(p) # CurArc
  /\ (pc = "call" /\ ~dry_run) => BatchPaths \cap TrackedPaths(CurArc.fid) = {}

\* the paths the manifest of the folder fid records under the part name: the
\* path lines whose nearest header above is that name
ManifestUnder(fid, name) ==
  LET lines == manifest[fid].lines
      HeaderOf(j) == CHOOSE h \in 0..(j - 1) :
                       /\ h > 0 => lines[h].kind = "header"
                       /\ \A g \in (h + 1)..(j - 1) : lines[g].kind # "header"
  IN  {lines[j].text : j \in {j \in 1..Len(lines) :
         /\ lines[j].kind = "path"
         /\ HeaderOf(j) > 0
         /\ lines[HeaderOf(j)].text = name}}

\* C15: for every finalized part, the paths the manifest records under the
\* name of the part are exactly the paths in the part
C15_ManifestMatchesParts ==
  \A p \in parts : ManifestUnder(p.fid, ArcName(Arc(p))) = Range(p.files)

\* the batches of a list, one after the other
RECURSIVE Concat(_)
Concat(batches) == IF batches = <<>> THEN <<>> ELSE Head(batches) \o Concat(Tail(batches))

\* C16: the batches handed to create_tar_part partition the new-files list: no
\* batch is empty, the batches handed so far together with the batch being
\* filled are the files iterated so far, in order, and the batches handed
\* when the loop is over are the whole list
C16_BatchesPartition ==
  /\ \A j \in 1..Len(handed) : handed[j] # <<>>
  /\ pc = "loop" =>
       /\ Concat(handed) \o current_batch = SubSeq(new_files, 1, i_new - 1)
       /\ i_new > 1 => current_batch # <<>>
  /\ pc \in {"call", "add", "rename"} =>
       /\ handed[Len(handed)] = current_batch
       /\ Concat(handed) = SubSeq(new_files, 1, i_new - 1)
  /\ (pc = "call" /\ ret = "final") => Concat(handed) = new_files

\* C16 happens: the last of several batches is handed to create_tar_part
C16_Witness ==
  /\ pc = "call"
  /\ ret = "final"
  /\ Len(handed) > 1
  /\ Len(new_files) > Len(handed)

\* C19: batching is greedy: when a batch is closed before the file f, the bytes
\* of the batch plus the bytes of f, the first file of the next batch, exceed
\* the ceiling
C19_GreedyBatching ==
  (pc = "call" /\ ret = "loop") =>
    BatchBytes(current_batch) + FileOf(idx, new_files[i_new]).size > max_bytes

\* C19 happens: a batch of two files is closed before a third file
C19_Witness ==
  /\ pc = "call"
  /\ ret = "loop"
  /\ Len(current_batch) > 1

C18_ContiguousNumbers ==
  /\ \A fid \in Fids :
       /\ {p.num : p \in PartsOf(fid)} = 1..Cardinality(PartsOf(fid))
       /\ \A p, q \in PartsOf(fid) : p.num = q.num => p = q
  /\ pc = "rename" => \A p \in parts : p.fid = CurArc.fid => p.num # part_num

\* C18 happens: a part is about to be finalized after a part of the same
\* folder, in the run that follows a run that was terminated or that failed
C18_Witness ==
  /\ pc = "rename"
  /\ PartsOf(CurArc.fid) # {}
  /\ prev \in {"killed", "failed"}

====
